---- MODULE Spec2Model ----
(***************************************************************************)
(* A model of candidature-cms (src/streamlit_app.py): the session and role *)
(* table, the schema manager, the sheet import, the record store and the   *)
(* report export.                                                          *)
(*                                                                         *)
(* Text is modelled as a tuple of one-character strings, so that slicing,  *)
(* prefix tests, case folding and regular-expression substitution are      *)
(* computed and not assumed.  An SQL NULL / pandas NaN cell is NULL, a     *)
(* numeric spreadsheet cell is Num(d).                                     *)
(***************************************************************************)
EXTENDS Integers, Sequences, FiniteSets, TLC

VARIABLES
    users,      \* the parsed credentials file (users.yaml)
    auth,       \* st.session_state.auth
    perms,      \* the perms dict computed by the last script run
    msg,        \* what the sidebar showed in the last script run
    last,       \* the last interaction / operation and its inputs (history)
    db,         \* the SQLite database: records table, mirror tables
    template,   \* the template workbook on disk (DEFAULT_XLSX), or NoFile
    report,     \* the workbook the last script run returned (NoReport: none)
    sheet,      \* the raw sheet handed to detect_header_row
    hdr,        \* its result
    name,       \* the category name handed to slug
    out,        \* its result
    calls       \* how many times slug was applied to name

vars == <<users, auth, perms, msg, last, db, template, report,
          sheet, hdr, name, out, calls>>

authVars == <<users, auth, perms, msg>>
storeVars == <<db, template, report>>
hdrVars == <<sheet, hdr>>
slugVars == <<name, out, calls>>

(***************************************************************************)
(* Text helpers                                                            *)
(***************************************************************************)
NULL == <<"NULL">>
Num(d) == <<"NUM", d>>
None == <<"None">>

Digits == <<"0", "1", "2", "3", "4", "5", "6", "7", "8", "9">>
Uppers == <<"A", "B", "C", "D", "E", "F", "G", "H", "I", "J", "K", "L", "M",
            "N", "O", "P", "Q", "R", "S", "T", "U", "V", "W", "X", "Y", "Z">>
Lowers == <<"a", "b", "c", "d", "e", "f", "g", "h", "i", "j", "k", "l", "m",
            "n", "o", "p", "q", "r", "s", "t", "u", "v", "w", "x", "y", "z">>

Range(s) == {s[i] : i \in DOMAIN s}
Alnum == Range(Digits) \cup Range(Uppers) \cup Range(Lowers)
Whitespace == {" ", "\t", "\n"}
Min(a, b) == IF a < b THEN a ELSE b

\* F(e), with e evaluated once: the value of a local variable of the code
Bind(e, F(_)) == CHOOSE r \in {F(v) : v \in {e}} : TRUE

\* str.lower() of one character
LowerChar(c) ==
    IF c \in Range(Uppers)
    THEN Lowers[CHOOSE i \in DOMAIN Uppers : Uppers[i] = c]
    ELSE c

Lower(s) == [i \in DOMAIN s |-> LowerChar(s[i])]

\* s[:n]
Prefix(s, n) == SubSeq(s, 1, Min(n, Len(s)))

\* s.startswith(p)
StartsWith(s, p) == Len(s) >= Len(p) /\ SubSeq(s, 1, Len(p)) = p

RECURSIVE LStrip(_, _)
LStrip(s, cs) ==
    IF s # <<>> /\ Head(s) \in cs THEN LStrip(Tail(s), cs) ELSE s

RECURSIVE RStrip(_, _)
RStrip(s, cs) ==
    IF s # <<>> /\ s[Len(s)] \in cs THEN RStrip(SubSeq(s, 1, Len(s) - 1), cs) ELSE s

\* s.strip() / s.strip(chars)
Strip(s, cs) == RStrip(LStrip(s, cs), cs)

\* re.sub(r"[cs]+", rep, s) when neg is FALSE, re.sub(r"[^cs]+", rep, s) when TRUE
RECURSIVE ReSubRuns(_, _, _, _)
ReSubRuns(s, cs, neg, rep) ==
    IF s = <<>> THEN <<>>
    ELSE IF (Head(s) \in cs) # neg
         THEN LET rest == Tail(s)
                  more == rest # <<>> /\ ((Head(rest) \in cs) # neg)
              IN  IF more THEN ReSubRuns(rest, cs, neg, rep)
                  ELSE rep \o ReSubRuns(rest, cs, neg, rep)
         ELSE <<Head(s)>> \o ReSubRuns(Tail(s), cs, neg, rep)

\* s.replace(c, rep) for a one-character c
RECURSIVE Replace(_, _, _)
Replace(s, c, rep) ==
    IF s = <<>> THEN <<>>
    ELSE (IF Head(s) = c THEN rep ELSE <<Head(s)>>) \o Replace(Tail(s), c, rep)

\* s.split()[0]: the first whitespace-delimited word
RECURSIVE TakeWord(_)
TakeWord(s) ==
    IF s = <<>> \/ Head(s) \in Whitespace THEN <<>>
    ELSE <<Head(s)>> \o TakeWord(Tail(s))

FirstWord(s) == TakeWord(LStrip(s, Whitespace))

(***************************************************************************)
(* slug                                                                    *)
(***************************************************************************)
SheetWord == <<"s", "h", "e", "e", "t">>

\* A slip: the result is not lower-cased.
slug_NoLower(nm) ==
    LET s1 == Strip(ReSubRuns(Strip(nm, Whitespace), Alnum, TRUE, <<"_">>), {"_"})
        s2 == ReSubRuns(s1, {"_"}, FALSE, <<"_">>)
    IN  IF s2 = <<>> THEN SheetWord ELSE s2

slug(nm) ==
    LET s1 == Lower(Strip(ReSubRuns(Strip(nm, Whitespace), Alnum, TRUE, <<"_">>), {"_"}))
        s2 == ReSubRuns(s1, {"_"}, FALSE, <<"_">>)
    IN  IF s2 = <<>> THEN SheetWord ELSE s2

(***************************************************************************)
(* normalize_columns (one column name; a numeric header is str()'d)        *)
(***************************************************************************)
StrOf(c) == IF c # <<>> /\ c[1] = "NUM" THEN Tail(c) ELSE c

normalize_column(c) ==
    Strip(Replace(Replace(ReSubRuns(StrOf(c), Whitespace, FALSE, <<" ">>),
                          "/", <<" ">>),
                  "&", <<"a", "n", "d">>),
          Whitespace)

normalize_columns(cols) == [i \in DOMAIN cols |-> normalize_column(cols[i])]

(***************************************************************************)
(* detect_header_row                                                       *)
(***************************************************************************)
MaxScan == 50

notna(x) == x # NULL
IsStr(x) == x # NULL /\ (x = <<>> \/ x[1] # "NUM")
NotNaCount(row) == Cardinality({j \in DOMAIN row : notna(row[j])})

\* row.notna().sum() >= 3 and any(isinstance(x, str) for x in row.values)
HeaderLike(row) == NotNaCount(row) >= 3 /\ \E j \in DOMAIN row : IsStr(row[j])

\* the loop from index i (0-based) up to, not including, n
RECURSIVE ScanFrom(_, _, _)
ScanFrom(df, i, n) ==
    IF i >= n THEN 0
    ELSE IF HeaderLike(df[i + 1]) THEN i
         ELSE ScanFrom(df, i + 1, n)

\* A slip: the scan is not limited to the first max_scan rows.
detect_header_row_NoLimit(df) == ScanFrom(df, 0, Len(df))

detect_header_row(df) == ScanFrom(df, 0, Min(MaxScan, Len(df)))

(***************************************************************************)
(* Names used by the program                                               *)
(***************************************************************************)
\* "Ref #"
ColRef == <<"R", "e", "f", " ", "#">>
\* "Candidate Countries"
ColCountries ==
    <<"C", "a", "n", "d", "i", "d", "a", "t", "e", " ", "C", "o", "u", "n",
      "t", "r", "i", "e", "s">>
\* "Respective Country's Election Body"
ColBody ==
    <<"R", "e", "s", "p", "e", "c", "t", "i", "v", "e", " ", "C", "o", "u",
      "n", "t", "r", "y", "'", "s", " ", "E", "l", "e", "c", "t", "i",
      "o", "n", " ", "B", "o", "d", "y">>
\* "Proposal sent by"
ColProposal ==
    <<"P", "r", "o", "p", "o", "s", "a", "l", " ", "s", "e", "n", "t", " ",
      "b", "y">>
\* "Indicate Confirmation with date and TPN #"
ColConfirm ==
    <<"I", "n", "d", "i", "c", "a", "t", "e", " ", "C", "o", "n", "f", "i",
      "r", "m", "a", "t", "i", "o", "n", " ", "w", "i", "t", "h", " ",
      "d", "a", "t", "e", " ", "a", "n", "d", " ", "T", "P", "N", " ", "#">>
\* "Attachment Path"
ColAttachment ==
    <<"A", "t", "t", "a", "c", "h", "m", "e", "n", "t", " ", "P", "a", "t",
      "h">>
\* "Created By"
ColCreatedBy == <<"C", "r", "e", "a", "t", "e", "d", " ", "B", "y">>
\* "Created At"
ColCreatedAt == <<"C", "r", "e", "a", "t", "e", "d", " ", "A", "t">>
\* "category"
ColCategory == <<"c", "a", "t", "e", "g", "o", "r", "y">>
\* "records"
RecordsTable == <<"r", "e", "c", "o", "r", "d", "s">>
\* "General"
General == <<"G", "e", "n", "e", "r", "a", "l">>
\* "Sheet"
SheetDefault == <<"S", "h", "e", "e", "t">>
\* "Ref # (auto)"
IndexLabel == <<"R", "e", "f", " ", "#", " ", "(", "a", "u", "t", "o", ")">>

CANONICAL_COLUMNS ==
    <<ColRef, ColCountries, ColBody, ColProposal, ColConfirm,
      ColAttachment, ColCreatedBy, ColCreatedAt>>

\* CANONICAL_COLUMNS[:5]
BasicCols == SubSeq(CANONICAL_COLUMNS, 1, 5)

\* ["category"] + CANONICAL_COLUMNS
BaseCols == <<ColCategory>> \o CANONICAL_COLUMNS

(***************************************************************************)
(* The database.  db maps each existing table's name to                    *)
(*   [cols: the columns after id, rows: <<[id, cells]>> in id order,       *)
(*    seq: the AUTOINCREMENT high-water mark].                             *)
(* A connection is [c: the committed database, w: the connection's view].  *)
(***************************************************************************)
Open(d) == [c |-> d, w |-> d]
Commit(conn) == [c |-> conn.w, w |-> conn.w]
Rollback(conn) == [c |-> conn.c, w |-> conn.c]

HasDuplicates(cols) == \E i, j \in DOMAIN cols : i < j /\ cols[i] = cols[j]

\* to_sql into a TEXT column: a number is stored as its text
ToText(v) == IF v # <<>> /\ v[1] = "NUM" THEN Tail(v) ELSE v

\* CREATE TABLE IF NOT EXISTS
CreateIfNotExists(d, t, columns) ==
    IF t \in DOMAIN d THEN d
    ELSE d @@ (t :> [cols |-> columns, rows |-> <<>>, seq |-> 0])

\* DELETE FROM t (the AUTOINCREMENT mark is kept)
DeleteAll(d, t) == [d EXCEPT ![t].rows = <<>>]

\* ALTER TABLE t ADD COLUMN c TEXT
AddColumn(d, t, c) ==
    [d EXCEPT ![t].cols = @ \o <<c>>,
              ![t].rows = [i \in DOMAIN @ |->
                              [@[i] EXCEPT !.cells = @ @@ (c :> NULL)]]]

\* INSERT of rows given as functions from inscols to values; other columns NULL
InsertRows(d, t, inscols, vals) ==
    LET tb == d[t]
        mk(i) == [id |-> tb.seq + i,
                  cells |-> [c \in Range(tb.cols) |->
                                IF c \in inscols THEN ToText(vals[i][c]) ELSE NULL]]
    IN  [d EXCEPT ![t].rows = @ \o [i \in DOMAIN vals |-> mk(i)],
                  ![t].seq = @ + Len(vals)]

\* ensure_table: an empty or repeated column list (or a column named id) is
\* an SQL error, raised before the commit
ensure_table(conn, table, columns) ==
    IF columns = <<>> \/ HasDuplicates(<<<<"i", "d">>>> \o columns)
    THEN [conn |-> conn, err |-> TRUE]
    ELSE [conn |-> Commit([conn EXCEPT !.w = CreateIfNotExists(@, table, columns)]),
          err |-> FALSE]

RECURSIVE AddMissing(_, _, _)
AddMissing(d, t, cols) ==
    IF cols = <<>> THEN d
    ELSE AddMissing(IF Head(cols) \in Range(d[t].cols) THEN d
                    ELSE AddColumn(d, t, Head(cols)),
                    t, Tail(cols))

\* A slip: missing columns are not backfilled.
ensure_records_table_NoBackfill(conn) ==
    ensure_table(conn, RecordsTable, BaseCols).conn

ensure_records_table(conn) ==
    LET c1 == ensure_table(conn, RecordsTable, BaseCols).conn
    IN  Commit([c1 EXCEPT !.w = AddMissing(@, RecordsTable, BaseCols)])

(***************************************************************************)
(* pandas DataFrame.to_sql(table, conn, if_exists="append", index=False).  *)
(* A data frame is [cols, rows], each row a tuple aligned with cols.  An   *)
(* empty frame inserts nothing; otherwise the INSERT runs in a transaction *)
(* that is committed, or rolled back when a column is unknown.             *)
(***************************************************************************)
to_sql(conn, t, df) ==
    IF t \notin DOMAIN conn.w
    THEN LET c1 == [conn EXCEPT !.w = CreateIfNotExists(@, t, df.cols)]
             vals == [i \in DOMAIN df.rows |->
                         [c \in Range(df.cols) |->
                             df.rows[i][CHOOSE j \in DOMAIN df.cols : df.cols[j] = c]]]
         IN  [conn |-> Commit([c1 EXCEPT !.w = InsertRows(@, t, Range(df.cols), vals)]),
              err |-> FALSE]
    ELSE IF df.rows = <<>> THEN [conn |-> conn, err |-> FALSE]
    ELSE IF ~(Range(df.cols) \subseteq Range(conn.w[t].cols))
         THEN [conn |-> Rollback(conn), err |-> TRUE]
    ELSE LET vals == [i \in DOMAIN df.rows |->
                         [c \in Range(df.cols) |->
                             df.rows[i][CHOOSE j \in DOMAIN df.cols : df.cols[j] = c]]]
         IN  [conn |-> Commit([conn EXCEPT !.w = InsertRows(@, t, Range(df.cols), vals)]),
              err |-> FALSE]

(***************************************************************************)
(* Reading a sheet.  A raw sheet is a rectangular tuple of rows of cells.  *)
(***************************************************************************)
\* the name pandas gives the column under an empty header cell: "Unnamed: "
\* and the column's 0-based position
Unnamed(j) == <<"U", "n", "n", "a", "m", "e", "d", ":", " ">> \o <<Digits[j]>>

\* pd.read_excel(..., header=h): row h names the columns, the rows after it
\* are the data; a sheet with no rows gives a frame with no columns
read_excel(raw, h) ==
    IF raw = <<>> THEN [cols |-> <<>>, rows |-> <<>>]
    ELSE [cols |-> [j \in DOMAIN raw[h + 1] |->
                       IF raw[h + 1][j] = NULL THEN Unnamed(j) ELSE raw[h + 1][j]],
          rows |-> SubSeq(raw, h + 2, Len(raw))]

RECURSIVE SelectSeq2(_, _)
SelectSeq2(s, keep) ==
    IF s = <<>> THEN <<>>
    ELSE (IF 1 \in keep THEN <<Head(s)>> ELSE <<>>)
         \o SelectSeq2(Tail(s), {k - 1 : k \in keep \ {1}})

\* df.dropna(axis=1, how="all").dropna(how="all")
dropna_all(df) ==
    LET keepc == {j \in DOMAIN df.cols : \E i \in DOMAIN df.rows : df.rows[i][j] # NULL}
        rows1 == [i \in DOMAIN df.rows |-> SelectSeq2(df.rows[i], keepc)]
        keepr == {i \in DOMAIN rows1 : \E j \in DOMAIN rows1[i] : rows1[i][j] # NULL}
    IN  [cols |-> SelectSeq2(df.cols, keepc), rows |-> SelectSeq2(rows1, keepr)]

\* the frame import_sheet_into_table works on (lines 105-109)
SheetFrame(raw) ==
    LET df == dropna_all(read_excel(raw, detect_header_row(raw)))
    IN  [cols |-> normalize_columns(df.cols), rows |-> df.rows]

\* the column of a frame, as a Series
Column(df, c) ==
    LET j == CHOOSE k \in DOMAIN df.cols : df.cols[k] = c
    IN  [i \in DOMAIN df.rows |-> df.rows[i][j]]

\* colmap[canon]: the first column whose lowered name starts with the lowered
\* first word of canon, or None
colmap(df, canon) ==
    LET w == FirstWord(Lower(canon))
        cand == {j \in DOMAIN df.cols : StartsWith(Lower(df.cols[j]), w)}
    IN  IF cand = {} THEN None
        ELSE df.cols[CHOOSE j \in cand : \A k \in cand : j <= k]

(***************************************************************************)
(* pandas column assignment on the frame recs, which starts without rows   *)
(* (pd.DataFrame({})).  A frame here is [n, cols, cells], cells[k] the     *)
(* column cols[k].  Assigning a scalar fills the rows the frame has at     *)
(* that moment; assigning a non-empty Series to a frame without rows       *)
(* gives the frame the Series' index and fills the columns it already      *)
(* has with NaN (DataFrame._ensure_valid_index).                           *)
(***************************************************************************)
EmptyFrame == [n |-> 0, cols |-> <<>>, cells |-> <<>>]

SetScalar(f, col, v) ==
    [f EXCEPT !.cols = @ \o <<col>>,
              !.cells = @ \o <<[i \in 1..f.n |-> v]>>]

SetSeries(f, col, ser) ==
    IF f.n = 0 /\ Len(ser) > 0
    THEN [n |-> Len(ser),
          cols |-> f.cols \o <<col>>,
          cells |-> [k \in DOMAIN f.cells |-> [i \in 1..Len(ser) |-> NULL]] \o <<ser>>]
    ELSE [f EXCEPT !.cols = @ \o <<col>>, !.cells = @ \o <<ser>>]

RECURSIVE SetBasic(_, _, _)
SetBasic(f, df, canons) ==
    IF canons = <<>> THEN f
    ELSE LET src == colmap(df, Head(canons))
             f1 == IF src \in Range(df.cols)
                   THEN SetSeries(f, Head(canons), Column(df, src))
                   ELSE SetScalar(f, Head(canons), NULL)
         IN  SetBasic(f1, df, Tail(canons))

\* recs as built by lines 115-122, as a [cols, rows] frame
BuildRecs(sheet_name, df) ==
    LET f0 == SetScalar(EmptyFrame, ColCategory, sheet_name)
        f1 == SetBasic(f0, df, BasicCols)
        f2 == SetScalar(SetScalar(SetScalar(f1, ColAttachment, <<>>),
                                  ColCreatedBy, <<>>),
                        ColCreatedAt, <<>>)
    IN  [cols |-> f2.cols,
         rows |-> [i \in 1..f2.n |-> [k \in DOMAIN f2.cols |-> f2.cells[k][i]]]]

(***************************************************************************)
(* import_sheet_into_table.  A sheet is [name, readable, grid]; an         *)
(* unreadable sheet makes pd.read_excel raise.  Returns the connection     *)
(* and whether an exception was raised.                                    *)
(***************************************************************************)
\* lines 105-122 and 125: what the function computes from the sheet alone
ParseSheet(sh) ==
    LET df == SheetFrame(sh.grid)
    IN  [df |-> df, recs |-> BuildRecs(sh.name, df), table |-> slug(sh.name)]

(***************************************************************************)
(* Inputs: category names, sheets and workbooks                            *)
(***************************************************************************)
SheetNameMax == 31

\* no file at the path
NoFile == [exists |-> FALSE, ok |-> FALSE, sheets |-> <<>>]

Asia == <<"A", "s", "i", "a">>
Europe == <<"E", "u", "r", "o", "p", "e">>
\* "North & Central"
NorthAndCentral ==
    <<"N", "o", "r", "t", "h", " ", "&", " ", "C", "e", "n", "t", "r", "a", "l">>
\* "north---central"
NorthDashes ==
    <<"n", "o", "r", "t", "h", "-", "-", "-", "c", "e", "n", "t", "r", "a", "l">>
\* "Records"
RecordsSheet == <<"R", "e", "c", "o", "r", "d", "s">>
\* "Sheet2"
Sheet2 == <<"S", "h", "e", "e", "t", "2">>

\* a name of exactly SheetNameMax characters, and two names of 40 characters
\* that begin with it
Name31 == [i \in 1..SheetNameMax |-> IF i = 1 THEN "Z" ELSE "o"]
Name40A == Name31 \o <<"n", "e", " ", "A", "l", "p", "h", "a", "a">>
Name40B == Name31 \o <<"n", "e", " ", "B", "r", "a", "v", "o", "o">>

\* header cells as they stand in the sheets
\* "Candidate  Countries" (two spaces)
HdrCountry ==
    <<"C", "a", "n", "d", "i", "d", "a", "t", "e", " ", " ", "C", "o", "u",
      "n", "t", "r", "i", "e", "s">>
\* "proposal/sender"
HdrProposal ==
    <<"p", "r", "o", "p", "o", "s", "a", "l", "/", "s", "e", "n", "d", "e", "r">>
\* "Notes & Remarks"
HdrNotes ==
    <<"N", "o", "t", "e", "s", " ", "&", " ", "R", "e", "m", "a", "r", "k", "s">>
\* "REFERENCE no"
HdrReference == <<"R", "E", "F", "E", "R", "E", "N", "C", "E", " ", "n", "o">>
\* "Status"
HdrStatus == <<"S", "t", "a", "t", "u", "s">>

MV == <<"M", "V">>
BJ == <<"B", "J">>
BF == <<"B", "F">>
Sec == <<"s", "e", "c">>
Ok == <<"o", "k">>

BlankRow == <<NULL, NULL, NULL, NULL>>

\* a blank row, the header, two data rows around a blank one
AsiaGrid ==
    <<BlankRow,
      <<ColRef, HdrCountry, HdrProposal, HdrNotes>>,
      <<Num("1"), MV, Sec, NULL>>,
      BlankRow,
      <<Num("2"), BJ, NULL, Ok>>>>

EuropeGrid ==
    <<<<HdrReference, HdrStatus, HdrNotes, NULL>>,
      <<Num("7"), Ok, BF, NULL>>>>

SheetAsia == [name |-> Asia, readable |-> TRUE, grid |-> AsiaGrid]
SheetEurope == [name |-> Europe, readable |-> TRUE, grid |-> EuropeGrid]
SheetBad == [name |-> Sheet2, readable |-> FALSE, grid |-> <<>>]
SheetEmpty == [name |-> Sheet2, readable |-> TRUE, grid |-> <<>>]
SheetNC1 == [name |-> NorthAndCentral, readable |-> TRUE, grid |-> EuropeGrid]
\* the same columns as EuropeGrid, other data
SheetNC2 ==
    [name |-> NorthDashes, readable |-> TRUE,
     grid |-> <<<<HdrReference, HdrStatus, HdrNotes, NULL>>,
                <<Num("8"), Sec, MV, NULL>>>>]
SheetNC3 == [name |-> NorthDashes, readable |-> TRUE, grid |-> AsiaGrid]
\* the canonical column names themselves as headers
SheetRecords ==
    [name |-> RecordsSheet, readable |-> TRUE,
     grid |-> <<<<ColRef, ColCountries, ColProposal, NULL>>,
                <<Num("9"), BF, Sec, NULL>>>>]
Sheet31 == [name |-> Name31, readable |-> TRUE, grid |-> EuropeGrid]

Book(sheets) == [exists |-> TRUE, ok |-> TRUE, sheets |-> sheets]

Workbooks ==
    {Book(<<SheetAsia, SheetEurope>>),
     Book(<<SheetAsia, SheetBad, SheetEurope>>),
     Book(<<SheetBad, SheetAsia>>),
     Book(<<SheetEurope, SheetEmpty>>),
     Book(<<SheetNC1, SheetNC2>>),
     Book(<<SheetNC1, SheetNC3>>),
     Book(<<SheetAsia, SheetRecords>>),
     \* a file that pd.ExcelFile cannot open
     [exists |-> TRUE, ok |-> FALSE, sheets |-> <<>>]}

Templates ==
    {NoFile, Book(<<SheetAsia, SheetEurope>>), Book(<<Sheet31, SheetBad>>)}

\* the categories a record can carry: a form choice, a missing key (""),
\* long names

\* a record as the form builds it, and one with only two keys
FullRecord(cat, ref) ==
    (ColCategory :> cat) @@ (ColRef :> ref) @@ (ColCountries :> MV)
    @@ (ColBody :> Sec) @@ (ColProposal :> Ok) @@ (ColConfirm :> BJ)
    @@ (ColAttachment :> <<"u", "/", "a">>) @@ (ColCreatedBy :> <<"a", "m", "y">>)
    @@ (ColCreatedAt :> <<"t", "0">>)

ShortRecord(ref) == (ColRef :> ref)

InsertRecords ==
    {FullRecord(cat, <<"1">>) : cat \in {Asia, Europe, <<>>, Name40A}}
    \cup {FullRecord(Name40B, <<"4">>), FullRecord(Asia, <<"2">>), ShortRecord(<<"3">>)}

\* databases the program can start from: none, or one made by an older
\* version whose records table lacks columns
LegacyDb ==
    (RecordsTable :>
        [cols |-> <<ColCategory, ColRef>>,
         rows |-> <<[id |-> 1, cells |-> (ColCategory :> Europe) @@ (ColRef :> <<"0">>)]>>,
         seq |-> 1])

\* ParseSheet, evaluated once for each sheet of the inputs
Parsed ==
    [sh \in UNION {Range(wb.sheets) : wb \in Workbooks \cup Templates} |->
        ParseSheet(sh)]

\* lines 123-130: the writes
WriteSheetTables(conn, p) ==
    Bind(to_sql(ensure_records_table(conn), RecordsTable, p.recs), LAMBDA r2 :
      IF r2.err THEN r2 ELSE
    Bind(ensure_table(r2.conn, p.table, normalize_columns(p.df.cols)), LAMBDA r3 :
      IF r3.err THEN r3 ELSE
    Bind(to_sql([r3.conn EXCEPT !.w = DeleteAll(@, p.table)], p.table, p.df), LAMBDA r5 :
      IF r5.err THEN r5 ELSE [conn |-> Commit(r5.conn), err |-> FALSE])))

import_sheet_into_table(conn, sh) ==
    IF ~sh.readable THEN [conn |-> conn, err |-> TRUE]
    ELSE WriteSheetTables(conn, Parsed[sh])

\* the loop "for s in xls.sheet_names: import_sheet_into_table(conn, path, s)";
\* failed is the 1-based position of the sheet that raised, 0 if none did
RECURSIVE ImportSheets(_, _, _)
ImportSheets(conn, sheets, i) ==
    IF i > Len(sheets) THEN [conn |-> conn, failed |-> 0]
    ELSE Bind(import_sheet_into_table(conn, sheets[i]), LAMBDA r :
           IF r.err THEN [conn |-> r.conn, failed |-> i]
           ELSE ImportSheets(r.conn, sheets, i + 1))

\* the body of both import buttons after the workbook was opened:
\* ensure_records_table, DELETE FROM records, the loop
ImportBatch(conn, wb) ==
    Bind([ensure_records_table(conn) EXCEPT !.w = DeleteAll(@, RecordsTable)],
         LAMBDA c2 : ImportSheets(c2, wb.sheets, 1))

(***************************************************************************)
(* Record store                                                            *)
(***************************************************************************)
\* read_table: SELECT * ... ORDER BY id, as a frame with the id column first
read_table(d, t) ==
    [cols |-> <<<<"i", "d">>>> \o d[t].cols,
     rows |-> [i \in DOMAIN d[t].rows |->
                 <<d[t].rows[i].id>> \o
                 [k \in DOMAIN d[t].cols |-> d[t].rows[i].cells[d[t].cols[k]]]]]

\* save_table: the id column is dropped, the table emptied, the frame appended
save_table(conn, table, df) ==
    LET keep == {j \in DOMAIN df.cols : df.cols[j] # <<"i", "d">>}
        df1 == [cols |-> SelectSeq2(df.cols, keep),
                rows |-> [i \in DOMAIN df.rows |-> SelectSeq2(df.rows[i], keep)]]
        c1 == [conn EXCEPT !.w = DeleteAll(@, table)]
        r2 == to_sql(c1, table, df1)
    IN  IF r2.err THEN r2 ELSE [conn |-> Commit(r2.conn), err |-> FALSE]

\* insert_record: record is a function from column names to values
insert_record(conn, record) ==
    LET c1 == ensure_records_table(conn)
        vals == <<[c \in Range(BaseCols) |->
                     IF c \in DOMAIN record THEN record[c] ELSE <<>>]>>
    IN  Commit([c1 EXCEPT !.w = InsertRows(@, RecordsTable, Range(BaseCols), vals)])

(***************************************************************************)
(* Report export                                                           *)
(***************************************************************************)
\* the characters of the model in code-point order (Python compares strings
\* by code point; groupby iterates its keys sorted)
CodeOrder ==
    <<"\t", "\n", " ", "#", "&", "'", "(", ")", "-", "/">> \o Digits \o <<":">>
    \o Uppers \o <<"_">> \o Lowers \o <<"é">>

Ord(c) == CHOOSE i \in DOMAIN CodeOrder : CodeOrder[i] = c

RECURSIVE StrLess(_, _)
StrLess(a, b) ==
    IF b = <<>> THEN FALSE
    ELSE IF a = <<>> THEN TRUE
    ELSE IF Head(a) = Head(b) THEN StrLess(Tail(a), Tail(b))
    ELSE Ord(Head(a)) < Ord(Head(b))

\* get_template_categories: the sheet names, [] when the file is missing or
\* cannot be opened
get_template_categories(tmpl) ==
    IF tmpl.exists /\ tmpl.ok
    THEN [i \in DOMAIN tmpl.sheets |-> tmpl.sheets[i].name]
    ELSE <<>>

\* A slip: the name is not cut to the sheet-name limit.
ExportSheetName_NoCut(cat) == IF cat = <<>> THEN SheetDefault ELSE cat

\* (cat or "Sheet")[:31]
ExportSheetName(cat) ==
    Prefix(IF cat = <<>> THEN SheetDefault ELSE cat, SheetNameMax)

\* to_excel on a writer in "w" mode: a sheet of that name is reused and the
\* cells written over it, otherwise the sheet is created
WriteSheet(sheets, nm, rows) ==
    IF nm \in DOMAIN sheets
    THEN [sheets EXCEPT ![nm] =
             [i \in 1..(IF Len(@) > Len(rows) THEN Len(@) ELSE Len(rows)) |->
                 IF i <= Len(rows) THEN rows[i] ELSE @[i]]]
    ELSE sheets @@ (nm :> rows)

\* the rows of one group: g[CANONICAL_COLUMNS[:5]] with index 1..n, written
\* with the index label as the first header cell
GroupRows(d, cat) ==
    LET idx == {i \in DOMAIN d[RecordsTable].rows :
                   d[RecordsTable].rows[i].cells[ColCategory] = cat}
        g == SelectSeq2(d[RecordsTable].rows, idx)
    IN  <<<<IndexLabel>> \o BasicCols>>
        \o [i \in DOMAIN g |->
              <<Num(Digits[i + 1])>> \o [k \in 1..5 |-> g[i].cells[BasicCols[k]]]]

\* for cat, g in df.groupby("category"): keys sorted, NaN keys dropped
RECURSIVE WriteGroups(_, _, _)
WriteGroups(sheets, d, cats) ==
    IF cats = {} THEN sheets
    ELSE LET cat == CHOOSE c \in cats : \A e \in cats \ {c} : StrLess(c, e)
         IN  WriteGroups(WriteSheet(sheets, ExportSheetName(cat), GroupRows(d, cat)),
                         d, cats \ {cat})

\* the placeholder loop; existing is computed once, before the loop
RECURSIVE WritePlaceholders(_, _, _)
WritePlaceholders(sheets, existing, cats) ==
    IF cats = <<>> THEN sheets
    ELSE LET nm == ExportSheetName(Head(cats))
         IN  WritePlaceholders(IF nm \notin existing
                               THEN WriteSheet(sheets, nm, <<BasicCols>>)
                               ELSE sheets,
                               existing, Tail(cats))

\* A slip: a placeholder is written for every template sheet.
PlaceholderSheets_All(sheets, tmplSheets) ==
    WritePlaceholders(sheets, {}, tmplSheets)

PlaceholderSheets(sheets, tmplSheets) ==
    WritePlaceholders(sheets, DOMAIN sheets, tmplSheets)

CategoriesOf(d) ==
    {d[RecordsTable].rows[i].cells[ColCategory] : i \in DOMAIN d[RecordsTable].rows}
    \ {NULL}

\* export_report_workbook: the connection (read_records ensures the table)
\* and the workbook; saving a workbook without any sheet raises
export_report_workbook(conn, include_all_template_sheets, tmpl) ==
    LET c1 == ensure_records_table(conn)
        template_sheets == IF include_all_template_sheets
                           THEN get_template_categories(tmpl) ELSE <<>>
        s1 == WriteGroups(<<>>, c1.w, CategoriesOf(c1.w))
        s2 == IF include_all_template_sheets /\ template_sheets # <<>>
              THEN PlaceholderSheets(s1, template_sheets) ELSE s1
    IN  [conn |-> c1,
         report |-> [ok |-> DOMAIN s2 # {}, flag |-> include_all_template_sheets,
                     sheets |-> s2]]

(***************************************************************************)
(* Access control: the credentials file, login_flow and ROLE_PERMS.        *)
(* A YAML scalar is [k, v]: k is "str", "int" (v its decimal text) or      *)
(* "absent" (the key is missing, .get gives None).  The session's user is  *)
(* "" when it is None: the code only tests its truth value.                *)
(***************************************************************************)
YStr(v) == [k |-> "str", v |-> v]
YInt(v) == [k |-> "int", v |-> v]
YAbsent == [k |-> "absent", v |-> ""]

\* str(x) of a YAML scalar or None
PyStr(x) == IF x.k = "absent" THEN "None" ELSE x.v

Allow(i, a, e, x) == [import |-> i, add |-> a, edit |-> e, export |-> x]

\* A slip: the editor row allows import.
ROLE_PERMS_EditorImports ==
    [admin |-> Allow(TRUE, TRUE, TRUE, TRUE),
     editor |-> Allow(TRUE, TRUE, TRUE, TRUE),
     viewer |-> Allow(FALSE, FALSE, FALSE, TRUE)]

ROLE_PERMS ==
    [admin |-> Allow(TRUE, TRUE, TRUE, TRUE),
     editor |-> Allow(FALSE, TRUE, TRUE, TRUE),
     viewer |-> Allow(FALSE, FALSE, FALSE, TRUE)]

\* ROLE_PERMS.get(role, ROLE_PERMS["viewer"])
PermsOf(role) ==
    IF role \in DOMAIN ROLE_PERMS THEN ROLE_PERMS[role] ELSE ROLE_PERMS["viewer"]

\* load_users: {} when users.yaml is missing
NoUsers == <<>>

UsersFile ==
    [alice |-> [password |-> YStr("a1"), role |-> YStr("admin")],
     ed     |-> [password |-> YInt("1234"), role |-> YStr("editor")],
     vic    |-> [password |-> YStr("v1"), role |-> YStr("viewer")],
     zoe    |-> [password |-> YStr("z1"), role |-> YStr("owner")],
     guest  |-> [password |-> YAbsent, role |-> YAbsent]]

TypedUsers == {"alice", "ed", "vic", "zoe", "guest", "mallory"}
TypedPasswords == {"a1", "1234", "v1", "z1", "None", ""}

NoUser == ""
SignedOut == [user |-> NoUser, role |-> "viewer"]

\* the condition of line 54
CredentialsMatch(u, p) == u \in DOMAIN users /\ p = PyStr(users[u].password)

\* the session after the "Sign in" button with u and p typed (lines 53-58)
SignedIn(u, p) ==
    IF CredentialsMatch(u, p)
    THEN [user |-> u,
          role |-> IF users[u].role.k = "absent" THEN "viewer" ELSE users[u].role.v]
    ELSE auth

(***************************************************************************)
(* The store: one operation per handler.  Every handler opens a            *)
(* connection ("with connect() as conn"), which commits when the block is  *)
(* left normally and rolls back when an exception leaves it.               *)
(***************************************************************************)
MaxId == 2

NoReport == [ok |-> FALSE, flag |-> FALSE, sheets |-> <<>>]
NoLast == [op |-> "none", pre |-> <<>>, wb |-> NoFile, path |-> "", failed |-> 0,
           rec |-> <<>>, u |-> "", p |-> "", was |-> SignedOut, ok |-> TRUE]

SeqOf(d, t) == IF t \in DOMAIN d THEN d[t].seq ELSE 0

SessionIdle ==
    /\ users = NoUsers
    /\ auth = SignedOut
    /\ perms = PermsOf("viewer")
    /\ msg = ""

StoreIdle == db = <<>> /\ template = NoFile /\ report = NoReport
HdrIdle == sheet = <<>> /\ hdr = -1
SlugIdle == name = <<>> /\ out = <<>> /\ calls = 0

\* the "Initialize DB" button
DoInitializeDB ==
    /\ db' = ensure_records_table(Open(db)).w
    /\ report' = NoReport
    /\ UNCHANGED template

\* the database after an import button: the template button catches any
\* exception inside the with block, so the block commits; the upload button
\* has try/finally without except, so an exception leaves the with block
\* and the pending transaction is rolled back
\* A slip: a failed batch leaves the database as it was before the button.
AfterImport_Discard(d, wb, path) ==
    IF ~(wb.exists /\ wb.ok) THEN [db |-> d, failed |-> 0, ok |-> FALSE]
    ELSE Bind(ImportBatch(Open(d), wb), LAMBDA r :
           IF r.failed = 0 THEN [db |-> r.conn.w, failed |-> 0, ok |-> TRUE]
           ELSE [db |-> d, failed |-> r.failed, ok |-> FALSE])

AfterImport(d, wb, path) ==
    IF ~(wb.exists /\ wb.ok) THEN [db |-> d, failed |-> 0, ok |-> FALSE]
    ELSE Bind(ImportBatch(Open(d), wb), LAMBDA r :
           IF r.failed = 0 THEN [db |-> r.conn.w, failed |-> 0, ok |-> TRUE]
           ELSE [db |-> IF path = "template" THEN r.conn.w ELSE r.conn.c,
                 failed |-> r.failed, ok |-> FALSE])

DoImport(wb, path) ==
    /\ SeqOf(db, RecordsTable) < MaxId
    /\ \E a \in {AfterImport(db, wb, path)} :
          /\ db' = a.db
          /\ last' = [NoLast EXCEPT !.op = "import", !.pre = db, !.wb = wb, !.path = path,
                                    !.failed = a.failed, !.ok = a.ok, !.was = auth]
    /\ report' = NoReport
    /\ UNCHANGED template

DoInsert(rec) ==
    /\ SeqOf(db, RecordsTable) < MaxId
    /\ db' = insert_record(Open(db), rec).w
    /\ report' = NoReport
    /\ UNCHANGED template

\* the edits of a grid: none, or the first row removed
GridEdits(df) == {df, [df EXCEPT !.rows = IF @ = <<>> THEN @ ELSE Tail(@)]}

DoSave(t, df) ==
    /\ SeqOf(db, t) < MaxId
    /\ \E r \in {save_table(Open(db), t, df)} :
          db' = IF r.err THEN r.conn.c ELSE r.conn.w
    /\ report' = NoReport
    /\ UNCHANGED template

DoExport(flag) ==
    /\ \E r \in {export_report_workbook(Open(db), flag, template)} :
          /\ db' = r.conn.w
          /\ report' = r.report
    /\ UNCHANGED template

(***************************************************************************)
(* Spec: the store under its operations                                    *)
(***************************************************************************)
Init ==
    /\ db \in {<<>>, LegacyDb}
    /\ template \in Templates
    /\ report = NoReport
    /\ last = NoLast
    /\ SessionIdle /\ HdrIdle /\ SlugIdle

InitializeDB ==
    /\ DoInitializeDB
    /\ last' = [NoLast EXCEPT !.op = "init", !.pre = db]
    /\ UNCHANGED <<authVars, hdrVars, slugVars>>

\* "Import template workbook into CMS"
ImportTemplate ==
    /\ DoImport(template, "template")
    /\ UNCHANGED <<authVars, hdrVars, slugVars>>

\* "Import uploaded workbook"
ImportUploaded(wb) ==
    /\ DoImport(wb, "upload")
    /\ UNCHANGED <<authVars, hdrVars, slugVars>>

\* insert_record
InsertRecord(rec) ==
    /\ DoInsert(rec)
    /\ last' = [NoLast EXCEPT !.op = "insert", !.pre = db, !.rec = rec]
    /\ UNCHANGED <<authVars, hdrVars, slugVars>>

\* save_table on a table read with read_table and edited
SaveTable(t, df) ==
    /\ DoSave(t, df)
    /\ last' = [NoLast EXCEPT !.op = "save", !.pre = db]
    /\ UNCHANGED <<authVars, hdrVars, slugVars>>

\* export_report_workbook
Export(flag) ==
    /\ DoExport(flag)
    /\ last' = [NoLast EXCEPT !.op = "export", !.pre = db]
    /\ UNCHANGED <<authVars, hdrVars, slugVars>>

Next ==
    \/ InitializeDB
    \/ ImportTemplate
    \/ \E wb \in Workbooks : ImportUploaded(wb)
    \/ \E rec \in InsertRecords : InsertRecord(rec)
    \/ \E t \in DOMAIN db : \E df \in GridEdits(read_table(db, t)) : SaveTable(t, df)
    \/ \E flag \in BOOLEAN : Export(flag)

Spec == Init /\ [][Next]_vars

(***************************************************************************)
(* SpecAuth: one session.  Each action is one run of the script: the       *)
(* widget clicked, login_flow, perms (line 178) and the gated handler.     *)
(* No template workbook is on disk and no file is uploaded, so the form    *)
(* offers the category "General" and the "Import uploaded workbook"        *)
(* button is not rendered.                                                 *)
(***************************************************************************)
InitAuth ==
    /\ users \in {NoUsers, UsersFile}
    /\ auth = SignedOut
    /\ perms = PermsOf("viewer")
    /\ msg = ""
    /\ last = NoLast
    /\ StoreIdle /\ HdrIdle /\ SlugIdle

\* "Sign in" with u and p typed; st.rerun() after a success
SignIn(u, p) ==
    /\ auth.user = NoUser
    /\ auth' = SignedIn(u, p)
    /\ perms' = PermsOf(auth'.role)
    /\ msg' = IF CredentialsMatch(u, p) THEN "Signed in" ELSE "Invalid credentials"
    /\ last' = [NoLast EXCEPT !.op = "signin", !.u = u, !.p = p, !.was = auth,
                              !.ok = (msg' = "Signed in")]
    /\ UNCHANGED <<users, storeVars, hdrVars, slugVars>>

\* "Sign out", then st.rerun()
SignOut ==
    /\ auth.user # NoUser
    /\ auth' = SignedOut
    /\ perms' = PermsOf(auth'.role)
    /\ msg' = ""
    /\ last' = [NoLast EXCEPT !.op = "signout", !.was = auth]
    /\ UNCHANGED <<users, storeVars, hdrVars, slugVars>>

SessionKept ==
    /\ perms' = PermsOf(auth.role)
    /\ msg' = IF auth.user # NoUser THEN "Signed in" ELSE ""
    /\ UNCHANGED <<users, auth, hdrVars, slugVars>>

\* "Initialize DB" is not gated
InitializeClicked ==
    /\ DoInitializeDB
    /\ last' = [NoLast EXCEPT !.op = "init", !.pre = db, !.was = auth]
    /\ SessionKept

\* the import button exists only under perms["import"]
ImportClicked ==
    /\ perms["import"]
    /\ DoImport(template, "template")
    /\ SessionKept

\* the record the form submits
FormRecord(ref) ==
    (ColCategory :> General) @@ (ColRef :> ref) @@ (ColCountries :> MV)
    @@ (ColBody :> <<>>) @@ (ColProposal :> <<>>) @@ (ColConfirm :> <<>>)
    @@ (ColAttachment :> <<>>) @@ (ColCreatedBy :> <<auth.user>>)
    @@ (ColCreatedAt :> <<"t", "0">>)

\* the form exists only under perms["add"]
AddClicked ==
    /\ perms["add"]
    /\ DoInsert(FormRecord(<<"1">>))
    /\ last' = [NoLast EXCEPT !.op = "add", !.pre = db, !.was = auth]
    /\ SessionKept

\* the edit grid's save, under perms["edit"]
EditSaved ==
    /\ perms["edit"]
    /\ RecordsTable \in DOMAIN db
    /\ DoSave(RecordsTable, read_table(db, RecordsTable))
    /\ last' = [NoLast EXCEPT !.op = "edit", !.pre = db, !.was = auth]
    /\ SessionKept

\* the report download, under perms["export"]
ExportClicked ==
    /\ perms["export"]
    /\ DoExport(TRUE)
    /\ last' = [NoLast EXCEPT !.op = "export", !.pre = db, !.was = auth]
    /\ SessionKept

NextAuth ==
    \/ \E u \in TypedUsers, p \in TypedPasswords : SignIn(u, p)
    \/ SignOut
    \/ InitializeClicked
    \/ ImportClicked
    \/ AddClicked
    \/ EditSaved
    \/ ExportClicked

SpecAuth == InitAuth /\ [][NextAuth]_vars

(***************************************************************************)
(* SpecHdr: detect_header_row on a sheet                                   *)
(***************************************************************************)
MaxGridRows == 3

NumRow == <<Num("1"), Num("2"), Num("3"), NULL>>
FourTextRow == <<<<"a">>, <<"b">>, <<"a">>, <<"b">>>>

\* rows: blank, numbers only, one text cell, two text cells, numbers around
\* a text cell, four text cells
RowKinds ==
    {BlankRow, NumRow, FourTextRow,
     <<<<"a">>, NULL, NULL, NULL>>,
     <<<<"a">>, <<"b">>, NULL, NULL>>,
     <<NULL, Num("1"), <<"a">>, Num("2")>>}

\* every sheet of at most MaxGridRows rows, and sheets around the scan
\* limit: filler rows, and a header row at q (0: none)
HdrSheets ==
    UNION {[1..n -> RowKinds] : n \in 0..MaxGridRows}
    \cup {[i \in 1..n |-> IF i = q THEN FourTextRow ELSE fill] :
            n \in (MaxScan - 1)..(MaxScan + 2), q \in 0..(MaxScan + 2),
            fill \in {BlankRow, NumRow}}

InitHdr ==
    /\ sheet \in HdrSheets
    /\ hdr = -1
    /\ last = NoLast
    /\ SessionIdle /\ StoreIdle /\ SlugIdle

DetectHeader ==
    /\ hdr = -1
    /\ hdr' = detect_header_row(sheet)
    /\ UNCHANGED <<sheet, last, authVars, storeVars, slugVars>>

SpecHdr == InitHdr /\ [][DetectHeader]_vars

(***************************************************************************)
(* SpecSlug: slug on a category name                                       *)
(***************************************************************************)
MaxNameLen == 2
MaxCalls == 2

SlugNames ==
    UNION {[1..n -> {"A", "b", "7", " ", "-", "_", "&", "é"}] : n \in 0..MaxNameLen}
    \cup {NorthAndCentral, NorthDashes, Asia, RecordsSheet, Name40A}

InitSlug ==
    /\ name \in SlugNames
    /\ out = <<>>
    /\ calls = 0
    /\ last = NoLast
    /\ SessionIdle /\ StoreIdle /\ HdrIdle

\* one call of slug(name); last.rec keeps the result of the first call
Slugify ==
    /\ calls < MaxCalls
    /\ out' = slug(name)
    /\ calls' = calls + 1
    /\ last' = IF calls = 0 THEN [NoLast EXCEPT !.op = "slug", !.rec = out'] ELSE last
    /\ UNCHANGED <<name, authVars, storeVars, hdrVars>>

SpecSlug == InitSlug /\ [][Slugify]_vars

(***************************************************************************)
(* Claims about detect_header_row and slug                                 *)
(***************************************************************************)
\* stated for the claims, independently of the operators above
QualifiesAsHeader(row) ==
    /\ Cardinality({j \in DOMAIN row : row[j] # NULL}) >= 3
    /\ \E j \in DOMAIN row : row[j] # NULL /\ row[j][1] # "NUM"

QualifyingRows(df) ==
    {k \in 0..(Min(50, Len(df)) - 1) : QualifiesAsHeader(df[k + 1])}

\* C5: detect_header_row returns the smallest row index below min(50, number
\* of rows) whose row has at least 3 non-empty cells and a text cell, and 0
\* when no such row exists; two blank rows followed by a row of four text
\* cells give 2.
C5_FirstQualifyingRow ==
    hdr # -1 =>
        /\ QualifyingRows(sheet) = {} => hdr = 0
        /\ QualifyingRows(sheet) # {} =>
              /\ hdr \in QualifyingRows(sheet)
              /\ \A k \in QualifyingRows(sheet) : hdr <= k
        /\ sheet = <<BlankRow, BlankRow, FourTextRow>> => hdr = 2

\* a sheet whose only header-like row lies past the scan limit was scanned
C5_Witness ==
    /\ hdr = 0
    /\ Len(sheet) > 50
    /\ QualifyingRows(sheet) = {}
    /\ \E k \in 51..Len(sheet) : QualifiesAsHeader(sheet[k])

SlugChars == Range(Lowers) \cup Range(Digits) \cup {"_"}

\* "north_central"
NorthCentralSlug ==
    <<"n", "o", "r", "t", "h", "_", "c", "e", "n", "t", "r", "a", "l">>

\* C6: slug gives the same string each time it is applied to a
\* name, the string holds only lowercase letters, digits and underscores,
\* and "North & Central" and "north---central" both give "north_central".
C6_SlugStable ==
    calls > 0 =>
        /\ out = last.rec
        /\ \A i \in DOMAIN out : out[i] \in SlugChars
        /\ name \in {NorthAndCentral, NorthDashes} => out = NorthCentralSlug

C6_Witness == calls = MaxCalls /\ name = NorthAndCentral /\ out = NorthCentralSlug

\* C6 with the two names giving distinct strings, as the specification has it
C6_Original ==
    calls > 0 =>
        /\ out = last.rec
        /\ \A i \in DOMAIN out : out[i] \in SlugChars
        /\ name = NorthDashes => out # slug(NorthAndCentral)

(***************************************************************************)
(* Claims about the session                                                *)
(***************************************************************************)
\* C1: in every session state the enabled actions are those of the role
\* table: a viewer-role session (also one not signed in, or with a role
\* outside admin/editor/viewer) is blocked from add, import and edit and may
\* export; an editor-role session can add, edit and export but not import;
\* only an admin-role session can import.
C1_RoleTable ==
    /\ auth.role = "admin" => perms = Allow(TRUE, TRUE, TRUE, TRUE)
    /\ auth.role = "editor" => perms = Allow(FALSE, TRUE, TRUE, TRUE)
    /\ auth.role \notin {"admin", "editor"} => perms = Allow(FALSE, FALSE, FALSE, TRUE)
    /\ auth.user = NoUser => perms = Allow(FALSE, FALSE, FALSE, TRUE)
    /\ last.op = "import" => last.was.role = "admin"
    /\ last.op \in {"add", "edit"} => last.was.role \in {"admin", "editor"}
    /\ last.op = "export" => perms["export"]

\* an editor has added a record and is not offered the import
C1_Witness ==
    /\ auth.role = "editor"
    /\ last.op = "add"
    /\ ~perms["import"]
    /\ perms["add"] /\ perms["edit"] /\ perms["export"]

\* the password the credentials file stores for u equals p
StoredPasswordIs(u, p) ==
    /\ u \in DOMAIN users
    /\ users[u].password.k # "absent"
    /\ users[u].password.v = p

StoredRole(u) == IF users[u].role.k = "absent" THEN "viewer" ELSE users[u].role.v

\* C7: a sign-in with an unknown user name or a password that is not the
\* stored one is rejected and leaves user and role unchanged; a successful
\* sign-in sets the user and the stored role; a signed-in identity stays
\* until a sign-out, which resets the session to no user with role viewer.
C7_SignIn ==
    /\ last.op = "signin" /\ ~StoredPasswordIs(last.u, last.p) =>
          ~last.ok /\ auth = last.was /\ msg = "Invalid credentials"
    /\ last.op = "signin" /\ last.ok =>
          auth = [user |-> last.u, role |-> StoredRole(last.u)]
    /\ last.op \notin {"signin", "signout", "none"} => auth = last.was
    /\ last.op = "signout" => auth = SignedOut

\* the same, with the accounts that store no password left out of its first
\* part
C7_SignInWhenPasswordStored ==
    /\ last.op = "signin" /\ ~StoredPasswordIs(last.u, last.p)
       /\ (last.u \in DOMAIN users => users[last.u].password.k # "absent") =>
          ~last.ok /\ auth = last.was /\ msg = "Invalid credentials"
    /\ last.op = "signin" /\ last.ok =>
          auth = [user |-> last.u, role |-> StoredRole(last.u)]
    /\ last.op \notin {"signin", "signout", "none"} => auth = last.was
    /\ last.op = "signout" => auth = SignedOut

(***************************************************************************)
(* Claims about the records table                                          *)
(***************************************************************************)
Cols(d) == IF RecordsTable \in DOMAIN d THEN Range(d[RecordsTable].cols) ELSE {}
Rows(d) == IF RecordsTable \in DOMAIN d THEN d[RecordsTable].rows ELSE <<>>

\* the last operation called ensure_records_table
EnsureRan ==
    \/ last.op \in {"init", "insert", "export"}
    \/ last.op = "import" /\ last.wb.exists /\ last.wb.ok

\* every row of pre is in d at its place, with its id and its values
RowsKept(pre, d) ==
    \A i \in DOMAIN Rows(pre) :
        /\ i \in DOMAIN Rows(d)
        /\ Rows(d)[i].id = Rows(pre)[i].id
        /\ \A c \in Cols(pre) : Rows(d)[i].cells[c] = Rows(pre)[i].cells[c]

\* C4: once ensure_records_table has run the records table has every
\* column of {category} + CANONICAL_COLUMNS, through inserts, imports, saves
\* and exports; ensure_records_table drops no column and no row, and a second
\* call right after changes nothing.
C4_RecordsSchema ==
    /\ EnsureRan =>
          /\ Range(BaseCols) \subseteq Cols(db)
          /\ ensure_records_table(Open(db)).w = db
    /\ Cols(last.pre) \subseteq Cols(db)
    /\ last.op \in {"init", "insert", "export"} => RowsKept(last.pre, db)
    /\ last.op \in {"init", "export"} => Len(Rows(db)) = Len(Rows(last.pre))

\* "Initialize DB" on a database of an older version: the row is kept and
\* the missing columns are there
C4_Witness ==
    /\ last.op = "init"
    /\ last.pre = LegacyDb
    /\ Len(Rows(db)) = 1
    /\ Range(BaseCols) \subseteq Cols(db)
    /\ Cols(last.pre) # Cols(db)

(***************************************************************************)
(* Claims about the report                                                 *)
(***************************************************************************)
\* the records of a category, in id order
CategoryRecords(d, cat) ==
    SelectSeq(Rows(d), LAMBDA r : r.cells[ColCategory] = cat)

\* the first five canonical fields of each record behind the index 1..n
IndexedFields(recs) ==
    [i \in DOMAIN recs |->
        <<Num(Digits[i + 1])>> \o [k \in 1..5 |-> recs[i].cells[BasicCols[k]]]]

\* the first 31 characters of the category name ("Sheet" for the empty name)
First31(cat) == Prefix(IF cat = <<>> THEN SheetDefault ELSE cat, SheetNameMax)

\* C2: after an export, every category with at least one record has a sheet
\* named with the first 31 characters of its name ("Sheet" for the empty
\* name); when no other category with records has the same sheet name, the
\* sheet's data rows are exactly that category's records: the first five
\* canonical fields, in id order, indexed 1..n.
C2_ExportSheets ==
    last.op = "export" =>
        \A cat \in CategoriesOf(db) :
            /\ First31(cat) \in DOMAIN report.sheets
            /\ report.sheets[First31(cat)][1] = <<IndexLabel>> \o BasicCols
            /\ (\A e \in CategoriesOf(db) \ {cat} : First31(e) # First31(cat)) =>
                  Tail(report.sheets[First31(cat)])
                      = IndexedFields(CategoryRecords(db, cat))

\* a category of 40 characters has its one record, at index 1, on the sheet
\* named with its first 31 characters, beside the sheet of "Asia"
C2_Witness ==
    /\ last.op = "export"
    /\ CategoriesOf(db) = {Asia, Name40A}
    /\ Name31 \in DOMAIN report.sheets
    /\ Len(report.sheets[Name31]) = 2
    /\ report.sheets[Name31][2] = <<Num("1"), <<"1">>, MV, Sec, Ok, BJ>>
    /\ Asia \in DOMAIN report.sheets
    /\ report.sheets[Asia][2] = <<Num("1"), <<"2">>, MV, Sec, Ok, BJ>>

\* C2 for every category with records, whether or not another one has the
\* same first 31 characters
C2_Original ==
    last.op = "export" =>
        \A cat \in CategoriesOf(db) :
            /\ First31(cat) \in DOMAIN report.sheets
            /\ Tail(report.sheets[First31(cat)]) = IndexedFields(CategoryRecords(db, cat))

TemplateCategories == Range(get_template_categories(template))

\* the sheet names of the categories with records
DataSheetNames(d) == {First31(c) : c \in CategoriesOf(d)}

\* C3: an export with the flag set has a sheet for every template sheet
\* name, header-only when no data sheet has that name, and leaves every data
\* sheet as it was written; an export without the flag has no header-only
\* sheet.
C3_Placeholders ==
    last.op = "export" =>
        /\ report.flag =>
              \A cat \in TemplateCategories :
                  /\ cat \in DOMAIN report.sheets
                  /\ cat \notin DataSheetNames(db) => report.sheets[cat] = <<BasicCols>>
        /\ \A nm \in DataSheetNames(db) :
              /\ nm \in DOMAIN report.sheets
              /\ Len(report.sheets[nm]) >= 2
              /\ report.sheets[nm][1] = <<IndexLabel>> \o BasicCols
        /\ DOMAIN report.sheets =
              DataSheetNames(db) \cup (IF report.flag THEN TemplateCategories ELSE {})
        /\ ~report.flag =>
              \A nm \in DOMAIN report.sheets : report.sheets[nm] # <<BasicCols>>

\* the template has the sheets "Asia" and "Europe", only "Asia" has records:
\* the report has the data sheet "Asia" and the header-only sheet "Europe"
C3_Witness ==
    /\ last.op = "export"
    /\ report.flag
    /\ get_template_categories(template) = <<Asia, Europe>>
    /\ CategoriesOf(db) = {Asia}
    /\ DOMAIN report.sheets = {Asia, Europe}
    /\ report.sheets[Europe] = <<BasicCols>>
    /\ Len(report.sheets[Asia]) >= 2

\* C3 with the template categories compared to the categories with records
\* by category name
C3_Original ==
    last.op = "export" =>
        /\ report.flag =>
              \A cat \in TemplateCategories \ CategoriesOf(db) :
                  /\ cat \in DOMAIN report.sheets
                  /\ report.sheets[cat] = <<BasicCols>>
        /\ \A nm \in DataSheetNames(db) :
              /\ nm \in DOMAIN report.sheets
              /\ Len(report.sheets[nm]) >= 2
              /\ report.sheets[nm][1] = <<IndexLabel>> \o BasicCols
        /\ ~report.flag =>
              \A nm \in DOMAIN report.sheets : report.sheets[nm] # <<BasicCols>>

(***************************************************************************)
(* Claims about the import                                                 *)
(***************************************************************************)
\* the canonical rows of a sheet: one for each data row of its frame, the
\* category the sheet name, each basic field the value of its mapped column
\* (NULL when unmapped), the last three fields empty
CanonicalRows(sh) ==
    LET df == Parsed[sh].df
    IN  [i \in DOMAIN df.rows |->
            [c \in Range(BaseCols) |->
                IF c = ColCategory THEN sh.name
                ELSE IF c \in Range(BasicCols)
                     THEN IF colmap(df, c) \in Range(df.cols)
                          THEN ToText(Column(df, colmap(df, c))[i])
                          ELSE NULL
                ELSE <<>>]]

\* the canonical rows of the first n sheets, in order
RECURSIVE BatchRows(_, _)
BatchRows(sheets, n) ==
    IF n = 0 THEN <<>>
    ELSE BatchRows(sheets, n - 1) \o CanonicalRows(sheets[n])

\* the first Len(expected) rows hold the expected values in the columns cols
HoldsRows(rows, expected, cols) ==
    /\ Len(rows) >= Len(expected)
    /\ \A i \in DOMAIN expected : \A c \in cols : rows[i].cells[c] = expected[i][c]

\* the mirror table of a sheet holds exactly the rows of the sheet's frame
MirrorHolds(d, sh) ==
    LET df == Parsed[sh].df
        t == Parsed[sh].table
    IN  /\ t \in DOMAIN d
        /\ Range(df.cols) \subseteq Range(d[t].cols)
        /\ Len(d[t].rows) = Len(df.rows)
        /\ \A i \in DOMAIN df.rows : \A j \in DOMAIN df.cols :
              d[t].rows[i].cells[df.cols[j]] = ToText(df.rows[i][j])

\* none of the first n sheets is mirrored into the records table
NoneIsRecords(sheets, n) ==
    \A i \in 1..n : Parsed[sheets[i]].table # RecordsTable

\* C8: after a batch in which every sheet was imported, the records table
\* holds exactly one canonical row for each data row of each sheet, with the
\* sheet name as category, the mapped values in the first five fields and
\* the last three fields empty.
C8_CanonicalRows ==
    /\ last.op = "import" /\ last.ok
    /\ NoneIsRecords(last.wb.sheets, Len(last.wb.sheets))
    => /\ Len(Rows(db)) = Len(BatchRows(last.wb.sheets, Len(last.wb.sheets)))
       /\ HoldsRows(Rows(db), BatchRows(last.wb.sheets, Len(last.wb.sheets)),
                    Range(BaseCols))

\* the same with the category left out of the comparison
C8_ExceptCategory ==
    /\ last.op = "import" /\ last.ok
    /\ NoneIsRecords(last.wb.sheets, Len(last.wb.sheets))
    => /\ Len(Rows(db)) = Len(BatchRows(last.wb.sheets, Len(last.wb.sheets)))
       /\ HoldsRows(Rows(db), BatchRows(last.wb.sheets, Len(last.wb.sheets)),
                    Range(BaseCols) \ {ColCategory})

\* the category the imported rows are stored with
C8_StoredCategory ==
    last.op = "import" /\ last.ok
    /\ NoneIsRecords(last.wb.sheets, Len(last.wb.sheets))
    => \A i \in DOMAIN Rows(db) : Rows(db)[i].cells[ColCategory] = NULL

\* C10: after a batch in which every sheet was imported, the mirror table of
\* every sheet holds exactly that sheet's rows and the records table holds
\* the canonical rows of every sheet: no mirror step touched the records
\* table or the mirror table of another sheet.
C10_MirrorFrame ==
    last.op = "import" /\ last.ok
    => /\ \A i \in DOMAIN last.wb.sheets : MirrorHolds(db, last.wb.sheets[i])
       /\ Len(Rows(db)) = Len(BatchRows(last.wb.sheets, Len(last.wb.sheets)))
       /\ HoldsRows(Rows(db), BatchRows(last.wb.sheets, Len(last.wb.sheets)),
                    Range(BaseCols) \ {ColCategory})

\* the same for the workbooks whose sheets have different slugs, none of
\* them "records"
C10_WhenSlugsDiffer ==
    /\ last.op = "import" /\ last.ok
    /\ NoneIsRecords(last.wb.sheets, Len(last.wb.sheets))
    /\ \A i, j \in DOMAIN last.wb.sheets :
          i # j => Parsed[last.wb.sheets[i]].table # Parsed[last.wb.sheets[j]].table
    => /\ \A i \in DOMAIN last.wb.sheets : MirrorHolds(db, last.wb.sheets[i])
       /\ Len(Rows(db)) = Len(BatchRows(last.wb.sheets, Len(last.wb.sheets)))
       /\ HoldsRows(Rows(db), BatchRows(last.wb.sheets, Len(last.wb.sheets)),
                    Range(BaseCols) \ {ColCategory})

\* the sheets before the failed one keep their mirror tables
EarlierMirrorsHold(d, sheets, k) ==
    \A i \in 1..(k - 1) :
        (\A j \in (i + 1)..(k - 1) : Parsed[sheets[j]].table # Parsed[sheets[i]].table)
        => MirrorHolds(d, sheets[i])

====
